---- MODULE Spec2Model ----
(***************************************************************************)
(* Model of the time.fun scraper (src/src/index.ts): the three-stage       *)
(* pipeline main() -> scrapeCreatorCount -> scrapeAllCreatorDetails ->     *)
(* generateReadableReport, the browser sessions it launches and closes,    *)
(* the two partition directories creators/ and creators-details/, and the  *)
(* report file.                                                            *)
(*                                                                         *)
(* JavaScript strings are sequences of one-character strings, so that      *)
(* toLowerCase, replace, parseInt and parseFloat are computed character by *)
(* character.  JavaScript numbers are held in hundredths (Scale), which is *)
(* exact for every text the model renders (at most two fraction digits).   *)
(***************************************************************************)
EXTENDS Integers, Sequences, FiniteSets, TLC

\* ------------------------------------------------------------------ bounds
\* most stubs the rendered grids of one run hold, all categories together
MaxStubs == 2
\* how many categories, counted from the end of the registry, the site
\* populates; the grids of the others are empty
MaxPopulated == 2
\* most records of one detail partition handed to the report stage
MaxRecs == 4
\* last tick of the wall clock (two ticks make one second)
MaxClock == 2
\* most runs of the report stage over the same detail partitions
MaxRuns == 2

\* ----------------------------------------------------------------- strings
Upper == <<"A","B","C","D","E","F","G","H","I","J","K","L","M",
           "N","O","P","Q","R","S","T","U","V","W","X","Y","Z">>
Lower == <<"a","b","c","d","e","f","g","h","i","j","k","l","m",
           "n","o","p","q","r","s","t","u","v","w","x","y","z">>
Digits == <<"0","1","2","3","4","5","6","7","8","9">>

IsUpper(c) == \E i \in 1..26 : Upper[i] = c
IsDigit(c) == \E i \in 1..10 : Digits[i] = c
DigitVal(c) == (CHOOSE i \in 1..10 : Digits[i] = c) - 1
IsSpace(c) == c \in {" ", "\t", "\n"}

\* String.prototype.toLowerCase / toUpperCase on one character
LowerChar(c) == IF IsUpper(c) THEN Lower[CHOOSE i \in 1..26 : Upper[i] = c] ELSE c
UpperChar(c) ==
    IF \E i \in 1..26 : Lower[i] = c
    THEN Upper[CHOOSE i \in 1..26 : Lower[i] = c] ELSE c

ToLowerCase(s) == [i \in 1..Len(s) |-> LowerChar(s[i])]

\* s.replace(/\s+/g, "-"): every maximal run of whitespace becomes one hyphen
RECURSIVE ReplaceSpaceRuns(_)
ReplaceSpaceRuns(s) ==
    IF s = <<>> THEN <<>>
    ELSE IF IsSpace(Head(s))
         THEN IF Len(s) > 1 /\ IsSpace(s[2])
              THEN ReplaceSpaceRuns(Tail(s))
              ELSE <<"-">> \o ReplaceSpaceRuns(Tail(s))
         ELSE <<Head(s)>> \o ReplaceSpaceRuns(Tail(s))

\* s.replace(/-/g, " ")
ReplaceHyphens(s) == [i \in 1..Len(s) |-> IF s[i] = "-" THEN " " ELSE s[i]]

\* first index at which pat occurs in s, 0 when it does not
IndexOf(s, pat) ==
    LET hits == {i \in 1..(Len(s) - Len(pat) + 1) :
                    SubSeq(s, i, i + Len(pat) - 1) = pat}
    IN IF hits = {} THEN 0 ELSE CHOOSE i \in hits : \A j \in hits : i <= j

\* s.replace(pat, rep) with a string pattern: the first occurrence only
ReplaceFirst(s, pat, rep) ==
    LET i == IndexOf(s, pat)
    IN IF i = 0 THEN s
       ELSE SubSeq(s, 1, i - 1) \o rep \o SubSeq(s, i + Len(pat), Len(s))

EndsWith(s, suf) ==
    Len(s) >= Len(suf) /\ SubSeq(s, Len(s) - Len(suf) + 1, Len(s)) = suf

DotJson == <<".","j","s","o","n">>

\* the file name saveCreatorsByCategory writes a category under
PartitionFile(categoryName) ==
    ReplaceSpaceRuns(ToLowerCase(categoryName)) \o DotJson

\* the category key readCreatorFiles derives from a file name
CategoryOfFile(file) == ReplaceFirst(file, DotJson, <<>>)

\* the category title generateReadableReport derives from a file name
ReportCategory(file) ==
    LET category == ReplaceHyphens(ReplaceFirst(file, DotJson, <<>>))
    IN IF category = <<>> THEN <<>>
       ELSE <<UpperChar(category[1])>> \o Tail(category)

\* ---------------------------------------------------------------- registry
categories == <<
    [name |-> <<"F","o","u","n","d","e","r","s">>, category |-> 1],
    [name |-> <<"I","n","f","l","u","e","n","c","e","r","s">>, category |-> 2],
    [name |-> <<"P","e","r","s","o","n","a","l","i","t","i","e","s">>, category |-> 3],
    [name |-> <<"I","n","v","e","s","t","o","r","s">>, category |-> 4],
    [name |-> <<"D","e","v","e","l","o","p","e","r","s">>, category |-> 5],
    [name |-> <<"T","i","m","e",".","f","u","n"," ","T","e","a","m">>, category |-> 8],
    [name |-> <<"D","a","t","a"," ","A","n","a","l","y","s","i","s">>, category |-> 9],
    [name |-> <<"T","r","a","d","i","n","g"," ","A","n","a","l","y","s","i","s">>,
     category |-> 10] >>

NumCategories == Len(categories)

\* ----------------------------------------------------------------- numbers
\* a JavaScript number n is Num(n * Scale); NaN, null and undefined are tagged
Scale == 100
Num(v) == [t |-> "num", v |-> v]
NaN == [t |-> "nan", v |-> 0]
Null == [t |-> "null", v |-> 0]
Undefined == [t |-> "undefined", v |-> 0]

\* the digits at the front of s, as a number (0 when there are none)
RECURSIVE DigitsValue(_, _)
DigitsValue(s, acc) ==
    IF s # <<>> /\ IsDigit(Head(s))
    THEN DigitsValue(Tail(s), acc * 10 + DigitVal(Head(s)))
    ELSE acc

RECURSIVE CountDigits(_)
CountDigits(s) ==
    IF s # <<>> /\ IsDigit(Head(s)) THEN 1 + CountDigits(Tail(s)) ELSE 0

RECURSIVE TrimStart(_)
TrimStart(s) == IF s # <<>> /\ IsSpace(Head(s)) THEN TrimStart(Tail(s)) ELSE s

Drop(s, n) == SubSeq(s, n + 1, Len(s))

\* an optional sign at the front of s: <<sign, rest>>
SignOf(s) ==
    IF s # <<>> /\ Head(s) = "-" THEN <<-1, Tail(s)>>
    ELSE IF s # <<>> /\ Head(s) = "+" THEN <<1, Tail(s)>>
    ELSE <<1, s>>

\* parseInt(text, 10): leading whitespace, an optional sign, then the longest
\* run of digits; NaN when no digit is read
ParseInt(text) ==
    LET sg == SignOf(TrimStart(text))
        s == sg[2]
        n == CountDigits(s)
    IN IF n = 0 THEN NaN ELSE Num(sg[1] * DigitsValue(s, 0) * Scale)

\* parseFloat(text): leading whitespace, an optional sign, digits, optionally
\* "." and digits; NaN when no digit is read
ParseFloat(text) ==
    LET sg == SignOf(TrimStart(text))
        s == sg[2]
        n == CountDigits(s)
        rest == Drop(s, n)
        hasDot == rest # <<>> /\ Head(rest) = "."
        frac == IF hasDot THEN Tail(rest) ELSE <<>>
        m == CountDigits(frac)
        f1 == IF m >= 1 THEN DigitVal(frac[1]) ELSE 0
        f2 == IF m >= 2 THEN DigitVal(frac[2]) ELSE 0
    IN IF n = 0 /\ m = 0 THEN NaN
       ELSE Num(sg[1] * (DigitsValue(s, 0) * Scale + f1 * 10 + f2))

\* ------------------------------------------------------------ JSON objects
\* an object is a function from its keys to values; name and url hold
\* strings, the other keys hold tagged numbers
StringKeys == {"name", "url"}
NumericKeys == {"minutesPurchased", "pricePerMinute", "marketCap"}

\* { ...a, ...b }
Spread(a, b) ==
    [k \in (DOMAIN a) \cup (DOMAIN b) |-> IF k \in DOMAIN b THEN b[k] ELSE a[k]]

\* JSON.parse(JSON.stringify(obj)): a key holding undefined is dropped, NaN is
\* written as null, everything else is kept
JsonObject(obj) ==
    LET kept == {k \in DOMAIN obj : k \in StringKeys \/ obj[k] # Undefined}
    IN [k \in kept |->
          IF k \in StringKeys THEN obj[k]
          ELSE IF obj[k] = NaN THEN Null ELSE obj[k]]

\* JSON.parse(JSON.stringify(creators, null, 2)): an array keeps its order
JsonArray(creators) == [i \in 1..Len(creators) |-> JsonObject(creators[i])]

\* ------------------------------------------------------ listing extraction
\* an anchor of the grid: its h3 text (hasH3 false when there is none) and
\* its resolved href
UnknownCreator == <<"U","n","k","n","o","w","n"," ","C","r","e","a","t","o","r">>

RECURSIVE TrimEnd(_)
TrimEnd(s) ==
    IF s # <<>> /\ IsSpace(s[Len(s)]) THEN TrimEnd(SubSeq(s, 1, Len(s) - 1)) ELSE s

Trim(s) == TrimEnd(TrimStart(s))

\* link.querySelector("h3")?.textContent?.trim() || "Unknown Creator"
LinkName(link) ==
    IF link.hasH3 /\ Trim(link.h3) # <<>> THEN Trim(link.h3) ELSE UnknownCreator

\* the callback of creatorsGridElement.evaluate: one stub per anchor, DOM order
ExtractListing(links) ==
    [i \in 1..Len(links) |-> [name |-> LinkName(links[i]), url |-> links[i].href]]

\* ------------------------------------------------------- detail extraction
\* a rendered entity page: per label, whether a text node contains the label
\* and the textContent of the first <p> of the next sibling (hasText false
\* when the sibling or the <p> is missing)
NoLabel == [label |-> FALSE, hasText |-> FALSE, text |-> <<>>]
Labelled(text) == [label |-> TRUE, hasText |-> TRUE, text |-> text]
LabelOnly == [label |-> TRUE, hasText |-> FALSE, text |-> <<>>]

\* text || "0"
OrZero(hasText, text) == IF hasText /\ text # <<>> THEN text ELSE <<"0">>

\* minutesElement ? parseInt(minutesText || "0", 10) : 0
MinutesPurchased(f) ==
    IF f.label THEN ParseInt(OrZero(f.hasText, f.text)) ELSE Num(0)

\* a price that is left undefined when its label is missing
PricePerMinuteOmitted(f) ==
    IF f.label
    THEN ParseFloat(OrZero(f.hasText, ReplaceFirst(f.text, <<"$">>, <<>>)))
    ELSE Undefined

\* priceElement ? parseFloat(priceText?.replace("$", "") || "0") : 0
PricePerMinute(f) ==
    IF f.label
    THEN ParseFloat(OrZero(f.hasText, ReplaceFirst(f.text, <<"$">>, <<>>)))
    ELSE Num(0)

\* marketCapText?.replace("$", "").replace(",", "")
MarketCapText(text) == ReplaceFirst(ReplaceFirst(text, <<"$">>, <<>>), <<",">>, <<>>)

\* marketCapElement ? parseFloat(marketCapText || "0") : 0
MarketCap(f) ==
    IF f.label THEN ParseFloat(OrZero(f.hasText, MarketCapText(f.text))) ELSE Num(0)

\* the object page.evaluate returns
EvaluateDetails(page) ==
    [minutesPurchased |-> MinutesPurchased(page.minutes),
     pricePerMinute |-> PricePerMinute(page.price),
     marketCap |-> MarketCap(page.cap)]

\* a merge in which the page's own heading takes the place of the name
MergeDetailsRenamed(creator, details) ==
    Spread(Spread(creator, details), [name |-> UnknownCreator])

\* return { ...creator, ...details }
MergeDetails(creator, details) == Spread(creator, details)

\* -------------------------------------------------------------- file system
\* a directory: whether it exists and, per file name, the parsed JSON document
NoFiles == [f \in {} |-> <<>>]
MissingDir == [exists |-> FALSE, files |-> NoFiles]

\* fs.mkdir(dataDir, {recursive: true}) then fs.writeFile(path, json): the
\* directory exists afterwards and the one file is replaced as a whole
WriteFile(dir, file, doc) ==
    [exists |-> TRUE,
     files |-> [f \in (DOMAIN dir.files) \cup {file} |->
                   IF f = file THEN doc ELSE dir.files[f]]]

\* a save that writes each url once
RECURSIVE DropRepeats(_)
DropRepeats(creators) ==
    IF creators = <<>> THEN <<>>
    ELSE LET front == DropRepeats(SubSeq(creators, 1, Len(creators) - 1))
             last == creators[Len(creators)]
         IN IF \E i \in 1..Len(front) : front[i].url = last.url
            THEN front ELSE Append(front, last)

SaveCreatorsOnce(dir, categoryName, creators) ==
    WriteFile(dir, PartitionFile(categoryName), JsonArray(DropRepeats(creators)))

\* the file saveCreatorsByCategory writes: the category's slug plus ".json"
SaveCreatorsByCategory(dir, categoryName, creators) ==
    WriteFile(dir, PartitionFile(categoryName), JsonArray(creators))

\* byte order of the characters file names are made of
CharRank(c) ==
    IF c = "-" THEN 45
    ELSE IF c = "." THEN 46
    ELSE IF IsDigit(c) THEN 48 + DigitVal(c)
    ELSE IF IsUpper(c) THEN 64 + (CHOOSE i \in 1..26 : Upper[i] = c)
    ELSE IF \E i \in 1..26 : Lower[i] = c
         THEN 96 + (CHOOSE i \in 1..26 : Lower[i] = c)
    ELSE 32

RECURSIVE StrLess(_, _)
StrLess(a, b) ==
    IF b = <<>> THEN FALSE
    ELSE IF a = <<>> THEN TRUE
    ELSE IF CharRank(Head(a)) # CharRank(Head(b))
         THEN CharRank(Head(a)) < CharRank(Head(b))
         ELSE StrLess(Tail(a), Tail(b))

RECURSIVE SortNames(_)
SortNames(names) ==
    IF names = {} THEN <<>>
    ELSE LET least == CHOOSE n \in names : \A m \in names \ {n} : StrLess(n, m)
         IN <<least>> \o SortNames(names \ {least})

Reverse(s) == [i \in 1..Len(s) |-> s[Len(s) + 1 - i]]

\* fs.readdir(dataDir): the order of the entries is the platform's, the same
\* at every call; "asc" is the byte order libuv's scandir gives, "desc"
\* stands for any other order
ReaddirOrders == {"asc", "desc"}
Readdir(dir, order) ==
    IF order = "asc" THEN SortNames(DOMAIN dir.files)
    ELSE Reverse(SortNames(DOMAIN dir.files))

\* the .json entries of a listing, in listing order
JsonFiles(files) == SelectSeq(files, LAMBDA f : EndsWith(f, DotJson))

\* readCreatorFiles: the Map, in insertion order, of category key to stubs
ReadCreatorFiles(dir, order) ==
    LET files == JsonFiles(Readdir(dir, order))
    IN [i \in 1..Len(files) |->
          [category |-> CategoryOfFile(files[i]), creators |-> dir.files[files[i]]]]

\* ------------------------------------------------------------------ report
\* a line of the report: its literal part and its computed part
Line(label, text) == [label |-> label, text |-> text]

RECURSIVE NatToStr(_)
NatToStr(n) ==
    IF n < 10 THEN <<Digits[n + 1]>>
    ELSE NatToStr(n \div 10) \o <<Digits[(n % 10) + 1]>>

\* `${n}` of an integer
IntToStr(n) == IF n < 0 THEN <<"-">> \o NatToStr(-n) ELSE NatToStr(n)

\* a comma before every group of three digits, counted from the right
RECURSIVE GroupThousands(_)
GroupThousands(ds) ==
    IF Len(ds) <= 3 THEN ds
    ELSE GroupThousands(SubSeq(ds, 1, Len(ds) - 3)) \o <<",">>
         \o SubSeq(ds, Len(ds) - 2, Len(ds))

Abs(v) == IF v < 0 THEN -v ELSE v

\* Number.prototype.toLocaleString() (en-US): grouped integer part, the
\* fraction without trailing zeros
ToLocaleString(v) ==
    LET whole == Abs(v) \div Scale
        frac == Abs(v) % Scale
        fracText == IF frac = 0 THEN <<>>
                    ELSE IF frac % 10 = 0 THEN <<".", Digits[(frac \div 10) + 1]>>
                    ELSE <<".", Digits[(frac \div 10) + 1], Digits[(frac % 10) + 1]>>
    IN (IF v < 0 THEN <<"-">> ELSE <<>>) \o GroupThousands(NatToStr(whole)) \o fracText

\* Number.prototype.toFixed(2)
ToFixed2(v) ==
    LET whole == Abs(v) \div Scale
        frac == Abs(v) % Scale
    IN (IF v < 0 THEN <<"-">> ELSE <<>>) \o NatToStr(whole)
       \o <<".", Digits[(frac \div 10) + 1], Digits[(frac % 10) + 1]>>

NotAvailable == <<"N","/","A">>

\* creator.key: undefined when the object has no such key
Get(obj, key) == IF key \in DOMAIN obj THEN obj[key] ELSE Undefined

\* value || 0 of a numeric field, in hundredths
OrZeroValue(value) == IF value.t = "num" THEN value.v ELSE 0

\* value?.toLocaleString() || "N/A"
LocaleOrNA(value) == IF value.t = "num" THEN ToLocaleString(value.v) ELSE NotAvailable

\* value?.toFixed(2) || "N/A"
FixedOrNA(value) == IF value.t = "num" THEN ToFixed2(value.v) ELSE NotAvailable

\* new Date().toLocaleString(): the text shows the time to the second
TicksPerSecond == 2
FormatDate(now) == NatToStr(now \div TicksPerSecond)

\* the comparator of the sort, (b.marketCap || 0) - (a.marketCap || 0)
SortKey(creator) == OrZeroValue(Get(creator, "marketCap"))
Compare(a, b) == SortKey(b) - SortKey(a)

\* an unstable sort: x goes before the elements it ties with
InsertSortedUnstable(sorted, x) ==
    LET later == {i \in 1..Len(sorted) : Compare(x, sorted[i]) <= 0}
        at == IF later = {} THEN Len(sorted) + 1
              ELSE CHOOSE i \in later : \A j \in later : i <= j
    IN SubSeq(sorted, 1, at - 1) \o <<x>> \o SubSeq(sorted, at, Len(sorted))

\* Array.prototype.sort is stable: x goes before the first element the
\* comparator puts strictly after it
InsertSorted(sorted, x) ==
    LET later == {i \in 1..Len(sorted) : Compare(x, sorted[i]) < 0}
        at == IF later = {} THEN Len(sorted) + 1
              ELSE CHOOSE i \in later : \A j \in later : i <= j
    IN SubSeq(sorted, 1, at - 1) \o <<x>> \o SubSeq(sorted, at, Len(sorted))

RECURSIVE SortFrom(_, _)
SortFrom(sorted, rest) ==
    IF rest = <<>> THEN sorted
    ELSE SortFrom(InsertSorted(sorted, Head(rest)), Tail(rest))

\* categoryData.creators.sort((a, b) => (b.marketCap || 0) - (a.marketCap || 0))
SortCreators(creators) == SortFrom(<<>>, creators)

RECURSIVE SumMarketCap(_)
SumMarketCap(creators) ==
    IF creators = <<>> THEN 0
    ELSE SortKey(Head(creators)) + SumMarketCap(Tail(creators))

\* a first pass that keeps the figures of the last category only
FirstPassLast(allData) ==
    IF allData = <<>> THEN <<0, 0>>
    ELSE <<Len(allData[Len(allData)].creators),
           SumMarketCap(allData[Len(allData)].creators)>>

\* the first pass: <<totalCreators, totalMarketCap>> over all categories
RECURSIVE FirstPass(_)
FirstPass(allData) ==
    IF allData = <<>> THEN <<0, 0>>
    ELSE LET rest == FirstPass(Tail(allData))
         IN <<Len(Head(allData).creators) + rest[1],
              SumMarketCap(Head(allData).creators) + rest[2]>>

RepeatChar(c, n) == [i \in 1..n |-> c]

\* the files of creators-details, read into allData in listing order
ReadAllData(dir, order) ==
    LET files == JsonFiles(Readdir(dir, order))
    IN [i \in 1..Len(files) |->
          [category |-> ReportCategory(files[i]), creators |-> dir.files[files[i]]]]

\* a header that carries the date in its title line as well
ReportHeaderDated(now) ==
    << Line("Time.fun Creators Report", FormatDate(now)),
       Line("Generated on: ", FormatDate(now)),
       Line("", <<>>) >>

\* the header of the report
ReportHeader(now) ==
    << Line("Time.fun Creators Report", <<>>),
       Line("Generated on: ", FormatDate(now)),
       Line("", <<>>) >>

\* a summary block
SummaryBlock(totalCreators, totalMarketCap) ==
    << Line("Summary", <<>>),
       Line("=======", <<>>),
       Line("Total Creators: ", IntToStr(totalCreators)),
       Line("Total Market Cap: $", ToLocaleString(totalMarketCap)) >>

\* the block of one creator
CreatorBlock(creator) ==
    << Line("Creator: ", creator.name),
       Line("URL: ", creator.url),
       Line("Minutes Purchased: ", LocaleOrNA(Get(creator, "minutesPurchased"))),
       Line("Price per Minute: $", FixedOrNA(Get(creator, "pricePerMinute"))),
       Line("Market Cap: $", LocaleOrNA(Get(creator, "marketCap"))),
       Line("-", RepeatChar("-", 50)) >>

\* the header of one category: `\n${category}\n`, the rule, a blank line
CategoryHeader(category) ==
    << Line("", <<>>),
       Line("", category),
       Line("=", RepeatChar("=", Len(category))),
       Line("", <<>>) >>

\* a loop over sortedCreators that leaves the two counters alone
RECURSIVE RenderCreatorsNoCount(_, _)
RenderCreatorsNoCount(sortedCreators, acc) ==
    IF sortedCreators = <<>> THEN acc
    ELSE RenderCreatorsNoCount(Tail(sortedCreators),
            [lines |-> acc.lines \o CreatorBlock(Head(sortedCreators)),
             totalCreators |-> acc.totalCreators,
             totalMarketCap |-> acc.totalMarketCap])

\* the loop over sortedCreators: a block per creator, and the two counters
\* of the first pass counted on
RECURSIVE RenderCreators(_, _)
RenderCreators(sortedCreators, acc) ==
    IF sortedCreators = <<>> THEN acc
    ELSE RenderCreators(Tail(sortedCreators),
            [lines |-> acc.lines \o CreatorBlock(Head(sortedCreators)),
             totalCreators |-> acc.totalCreators + 1,
             totalMarketCap |-> acc.totalMarketCap + SortKey(Head(sortedCreators))])

\* a loop over allData that passes over a category without creators
RECURSIVE RenderCategoriesSkipEmpty(_, _)
RenderCategoriesSkipEmpty(allData, acc) ==
    IF allData = <<>> THEN acc
    ELSE IF Head(allData).creators = <<>>
         THEN RenderCategoriesSkipEmpty(Tail(allData), acc)
         ELSE RenderCategoriesSkipEmpty(Tail(allData),
                 RenderCreators(SortCreators(Head(allData).creators),
                     [lines |-> acc.lines \o CategoryHeader(Head(allData).category),
                      totalCreators |-> acc.totalCreators,
                      totalMarketCap |-> acc.totalMarketCap]))

\* the loop over allData
RECURSIVE RenderCategories(_, _)
RenderCategories(allData, acc) ==
    IF allData = <<>> THEN acc
    ELSE RenderCategories(Tail(allData),
            RenderCreators(SortCreators(Head(allData).creators),
                [lines |-> acc.lines \o CategoryHeader(Head(allData).category),
                 totalCreators |-> acc.totalCreators,
                 totalMarketCap |-> acc.totalMarketCap]))

\* reportContent as generateReadableReport builds it
ReportContent(allData, now) ==
    LET first == FirstPass(allData)
        top == ReportHeader(now)
               \o SummaryBlock(first[1], first[2])
               \o << Line("", <<>>), Line("=", RepeatChar("=", 50)), Line("", <<>>) >>
        body == RenderCategories(allData,
                    [lines |-> top, totalCreators |-> first[1],
                     totalMarketCap |-> first[2]])
    IN body.lines
       \o << Line("", <<>>) >>
       \o SummaryBlock(body.totalCreators, body.totalMarketCap)

\* ------------------------------------------------------------ the web site
\* the anchors a rendered grid may hold
Anchors ==
    { [hasH3 |-> TRUE, h3 |-> <<" ","A","n","n"," ">>, href |-> <<"u","/","a">>],
      [hasH3 |-> FALSE, h3 |-> <<>>, href |-> <<"u","/","b">>] }

\* the entity pages the site renders during a whole run
PageFull ==
    [minutes |-> Labelled(<<"1","2","0">>),
     price |-> Labelled(<<"$","1",".","5","0">>),
     cap |-> Labelled(<<"$","5","0","0">>)]
PageBare == [minutes |-> NoLabel, price |-> NoLabel, cap |-> NoLabel]
RunPages == {PageFull, PageBare}

\* every sequence over S of length at most n
BoundedSeq(S, n) == UNION {[1..k -> S] : k \in 0..n}

NoReport == [exists |-> FALSE, content |-> <<>>]

\* ------------------------------------------------------------------- state
VARIABLES
    pc,               \* the statement the process is at
    err,              \* an error is propagating to main().catch
    exitCode,         \* -1 while running, then the exit status
    faults,           \* the statements that have thrown a fatal error
    mainBrowser,      \* main's `browser`: 0 is null, else the session
    detBrowser,       \* scrapeAllCreatorDetails's `browser`
    launched,         \* sessions puppeteer.launch has returned so far
    open,             \* sessions launched and not closed
    closes,           \* calls of browser.close() so far
    catIdx,           \* position of the listing loop in `categories`
    creators,         \* the `creators` of the category being listed
    returned,         \* what the extraction returned, per category listed
    gridFound,        \* the categories whose wait returned the grid's handle
    creatorsDir,      \* the directory creators/
    detailsDir,       \* the directory creators-details/
    reportFile,       \* the file creator-report.txt
    creatorMap,       \* the Map readCreatorFiles returned
    mapIdx,           \* position of the outer loop in creatorMap
    entIdx,           \* position of the inner loop in the category's stubs
    detailedCreators, \* the `detailedCreators` of the category being enriched
    renderedPages,    \* the page rendered for each record of detailedCreators
    failedIdx,        \* positions of the category whose extraction threw
    written,          \* per detail file written in this run: what it came from
    pages,            \* the entity pages the site may render
    readdirOrder,     \* the order the platform lists a directory in
    clock,            \* the wall clock, in ticks
    runs,             \* runs of the report stage so far
    prevReport        \* the report file as the previous run left it

ctlVars == <<pc, err, exitCode, faults>>
sessVars == <<mainBrowser, detBrowser, launched, open, closes>>
listVars == <<catIdx, creators, returned, gridFound>>
dirVars == <<creatorsDir, detailsDir>>
detVars == <<creatorMap, mapIdx, entIdx, detailedCreators, renderedPages,
             failedIdx, written>>
envVars == <<pages, readdirOrder, clock>>
repVars == <<reportFile, runs, prevReport>>
vars == <<ctlVars, sessVars, listVars, dirVars, detVars, envVars, repVars>>

\* the state main() starts in: nothing launched, nothing on disk
Init ==
    /\ pc = "main_launch"
    /\ err = FALSE
    /\ exitCode = -1
    /\ faults = {}
    /\ mainBrowser = 0 /\ detBrowser = 0
    /\ launched = 0 /\ open = {} /\ closes = 0
    /\ catIdx = 1 /\ creators = <<>> /\ returned = <<>> /\ gridFound = {}
    /\ creatorsDir = MissingDir
    /\ detailsDir = MissingDir
    /\ reportFile = NoReport
    /\ creatorMap = <<>> /\ mapIdx = 1 /\ entIdx = 1
    /\ detailedCreators = <<>> /\ renderedPages = <<>> /\ failedIdx = {}
    /\ written = NoFiles
    /\ pages = RunPages
    /\ readdirOrder \in ReaddirOrders
    /\ clock = 0
    /\ runs = 0 /\ prevReport = NoReport

\* an error thrown in main's try block: caught, logged, rethrown (355-357)
Fatal ==
    /\ pc' = "main_finally"
    /\ err' = TRUE
    /\ faults' = faults \cup {pc}
    /\ UNCHANGED exitCode

\* ------------------------------------------------------------------- main
\* puppeteer.launch in initializeBrowser, called from main (344 -> 27)
MainLaunch ==
    /\ pc = "main_launch"
    /\ \E ok \in BOOLEAN :
         IF ok
         THEN /\ launched' = launched + 1
              /\ open' = open \cup {launched + 1}
              /\ pc' = "main_init_page"
              /\ UNCHANGED <<err, exitCode, faults>>
         ELSE Fatal /\ UNCHANGED <<launched, open>>
    /\ UNCHANGED <<mainBrowser, detBrowser, closes>>
    /\ UNCHANGED <<listVars, dirVars, detVars, envVars, repVars>>

\* browser.newPage in initializeBrowser; the session reaches main's `browser`
\* only when initializeBrowser returns (30-32, 344)
MainInitPage ==
    /\ pc = "main_init_page"
    /\ \E ok \in BOOLEAN :
         IF ok
         THEN /\ mainBrowser' = launched
              /\ pc' = "main_new_page"
              /\ UNCHANGED <<err, exitCode, faults>>
         ELSE Fatal /\ UNCHANGED mainBrowser
    /\ UNCHANGED <<detBrowser, launched, open, closes>>
    /\ UNCHANGED <<listVars, dirVars, detVars, envVars, repVars>>

\* browser.newPage in main (345)
MainNewPage ==
    /\ pc = "main_new_page"
    /\ \E ok \in BOOLEAN :
         IF ok
         THEN pc' = "list_goto" /\ UNCHANGED <<err, exitCode, faults>>
         ELSE Fatal
    /\ UNCHANGED <<sessVars, listVars, dirVars, detVars, envVars, repVars>>

\* ---------------------------------------------------------------- listing
RECURSIVE TotalLen(_)
TotalLen(lists) ==
    IF lists = <<>> THEN 0 ELSE Len(Head(lists)) + TotalLen(Tail(lists))

\* the stubs the grids of this run have held so far
StubsListed == TotalLen(returned)

\* the category being listed is one of those the site populates
Populated == catIdx > NumCategories - MaxPopulated

\* the longest grid the site may render for the category being listed
GridBound == IF Populated THEN MaxStubs - StubsListed ELSE 0

\* what the wait for the grid may come to: the handle, a timeout thrown and,
\* for the last category, null
WaitOutcomes ==
    IF catIdx = NumCategories
    THEN {"found", "null", "timeout"} ELSE {"found", "timeout"}

\* page.goto of the category page (94-100)
ListGoto ==
    /\ pc = "list_goto"
    /\ \E ok \in BOOLEAN :
         IF ok THEN pc' = "list_wait" /\ UNCHANGED <<err, exitCode, faults>> ELSE Fatal
    /\ UNCHANGED <<sessVars, listVars, dirVars, detVars, envVars, repVars>>

\* page.waitForSelector(".grid") (102): the handle, null, or a timeout thrown
ListWaitForSelector ==
    /\ pc = "list_wait"
    /\ \E outcome \in WaitOutcomes :
         CASE outcome = "found" ->
                /\ pc' = "list_evaluate"
                /\ gridFound' = gridFound \cup {catIdx}
                /\ UNCHANGED <<err, exitCode, faults, creators, returned>>
           [] outcome = "null" ->
                /\ creators' = <<>>
                /\ returned' = Append(returned, <<>>)
                /\ pc' = "list_save"
                /\ UNCHANGED <<err, exitCode, faults, gridFound>>
           [] outcome = "timeout" ->
                Fatal /\ UNCHANGED <<creators, returned, gridFound>>
    /\ UNCHANGED <<catIdx, sessVars, dirVars, detVars, envVars, repVars>>

\* creatorsGridElement.evaluate (103-112)
ListEvaluate ==
    /\ pc = "list_evaluate"
    /\ \/ \E links \in BoundedSeq(Anchors, GridBound) :
            /\ creators' = ExtractListing(links)
            /\ returned' = Append(returned, ExtractListing(links))
            /\ pc' = "list_save"
            /\ UNCHANGED <<err, exitCode, faults>>
       \/ Fatal /\ UNCHANGED <<creators, returned>>
    /\ UNCHANGED <<catIdx, gridFound, sessVars, dirVars, detVars, envVars, repVars>>

\* the stub partitions of the first k categories saved in one batch
RECURSIVE SaveBatch(_, _, _)
SaveBatch(dir, lists, k) ==
    IF k = 0 THEN dir
    ELSE SaveCreatorsByCategory(SaveBatch(dir, lists, k - 1),
                                categories[k].name, lists[k])

\* a listing loop that keeps the stubs in memory and saves them all after
\* the last category
ListSaveDeferred ==
    /\ pc = "list_save"
    /\ \E outcome \in {"ok", "mkdir_throws", "write_throws"} :
         CASE outcome = "ok" ->
                /\ IF catIdx = NumCategories
                   THEN /\ creatorsDir' = SaveBatch(creatorsDir, returned, NumCategories)
                        /\ pc' = "det_read" /\ UNCHANGED catIdx
                   ELSE /\ pc' = "list_goto" /\ catIdx' = catIdx + 1
                        /\ UNCHANGED creatorsDir
                /\ UNCHANGED <<err, exitCode, faults>>
           [] outcome = "mkdir_throws" ->
                Fatal /\ UNCHANGED <<creatorsDir, catIdx>>
           [] outcome = "write_throws" ->
                /\ Fatal
                /\ creatorsDir' = [creatorsDir EXCEPT !.exists = TRUE]
                /\ UNCHANGED catIdx
    /\ UNCHANGED <<creators, returned, gridFound, detailsDir>>
    /\ UNCHANGED <<sessVars, detVars, envVars, repVars>>

\* saveCreatorsByCategory of the stubs, then the next category (115-121)
ListSave ==
    /\ pc = "list_save"
    /\ \E outcome \in {"ok", "mkdir_throws", "write_throws"} :
         CASE outcome = "ok" ->
                /\ creatorsDir' = SaveCreatorsByCategory(
                                      creatorsDir, categories[catIdx].name, creators)
                /\ IF catIdx = NumCategories
                   THEN pc' = "det_read" /\ UNCHANGED catIdx
                   ELSE pc' = "list_goto" /\ catIdx' = catIdx + 1
                /\ UNCHANGED <<err, exitCode, faults>>
           [] outcome = "mkdir_throws" ->
                Fatal /\ UNCHANGED <<creatorsDir, catIdx>>
           [] outcome = "write_throws" ->
                /\ Fatal
                /\ creatorsDir' = [creatorsDir EXCEPT !.exists = TRUE]
                /\ UNCHANGED catIdx
    /\ UNCHANGED <<creators, returned, gridFound, detailsDir>>
    /\ UNCHANGED <<sessVars, detVars, envVars, repVars>>

\* -------------------------------------------------------------- enrichment
\* an error thrown in scrapeAllCreatorDetails's try block: caught, logged,
\* rethrown, and the finally block runs (239-246)
DetFatal ==
    /\ pc' = "det_finally"
    /\ err' = TRUE
    /\ faults' = faults \cup {pc}
    /\ UNCHANGED exitCode

\* where the two loops stand: the next stub, the save of the category, or
\* the end of the outer loop (216, 222, 233)
LoopPc(map, m, e) ==
    IF m > Len(map) THEN "det_finally"
    ELSE IF e > Len(map[m].creators) THEN "det_save"
    ELSE "det_goto"

\* a readCreatorFiles that takes a directory it cannot read for one without
\* partitions
DetReadAsEmpty ==
    /\ pc = "det_read"
    /\ \/ /\ creatorsDir.exists
          /\ creatorMap' = ReadCreatorFiles(creatorsDir, readdirOrder)
          /\ UNCHANGED faults
       \/ /\ creatorMap' = <<>>
          /\ faults' = faults \cup {pc}
    /\ pc' = "det_launch"
    /\ UNCHANGED <<err, exitCode>>
    /\ UNCHANGED <<mapIdx, entIdx, detailedCreators, renderedPages, failedIdx, written>>
    /\ UNCHANGED <<sessVars, listVars, dirVars, envVars, repVars>>

\* readCreatorFiles (212 -> 126-143): readdir throws when creators/ is
\* missing or cannot be read
DetRead ==
    /\ pc = "det_read"
    /\ \/ /\ creatorsDir.exists
          /\ creatorMap' = ReadCreatorFiles(creatorsDir, readdirOrder)
          /\ pc' = "det_launch"
          /\ UNCHANGED <<err, exitCode, faults>>
       \/ DetFatal /\ UNCHANGED creatorMap
    /\ UNCHANGED <<mapIdx, entIdx, detailedCreators, renderedPages, failedIdx, written>>
    /\ UNCHANGED <<sessVars, listVars, dirVars, envVars, repVars>>

\* puppeteer.launch in initializeBrowser, called from
\* scrapeAllCreatorDetails (213 -> 27)
DetLaunch ==
    /\ pc = "det_launch"
    /\ \E ok \in BOOLEAN :
         IF ok
         THEN /\ launched' = launched + 1
              /\ open' = open \cup {launched + 1}
              /\ pc' = "det_init_page"
              /\ UNCHANGED <<err, exitCode, faults>>
         ELSE DetFatal /\ UNCHANGED <<launched, open>>
    /\ UNCHANGED <<mainBrowser, detBrowser, closes>>
    /\ UNCHANGED <<listVars, dirVars, detVars, envVars, repVars>>

\* browser.newPage in initializeBrowser (30-32, 213)
DetInitPage ==
    /\ pc = "det_init_page"
    /\ \E ok \in BOOLEAN :
         IF ok
         THEN /\ detBrowser' = launched
              /\ pc' = "det_new_page"
              /\ UNCHANGED <<err, exitCode, faults>>
         ELSE DetFatal /\ UNCHANGED detBrowser
    /\ UNCHANGED <<mainBrowser, launched, open, closes>>
    /\ UNCHANGED <<listVars, dirVars, detVars, envVars, repVars>>

\* browser.newPage in scrapeAllCreatorDetails, then the loops begin (214-222)
DetNewPage ==
    /\ pc = "det_new_page"
    /\ \E ok \in BOOLEAN :
         IF ok
         THEN /\ pc' = LoopPc(creatorMap, 1, 1)
              /\ mapIdx' = 1 /\ entIdx' = 1
              /\ detailedCreators' = <<>> /\ renderedPages' = <<>>
              /\ failedIdx' = {}
              /\ UNCHANGED <<err, exitCode, faults>>
         ELSE /\ DetFatal
              /\ UNCHANGED <<mapIdx, entIdx, detailedCreators, renderedPages, failedIdx>>
    /\ UNCHANGED <<creatorMap, written>>
    /\ UNCHANGED <<sessVars, listVars, dirVars, envVars, repVars>>

\* a catch that lets the stub through without its details
OnScrapeFailedPush(detailed, creator) == Append(detailed, creator)

\* the catch of the inner loop: the error is logged, nothing is pushed (227-229)
OnScrapeFailed(detailed, creator) == detailed

\* an inner loop whose catch throws the error of one entity on
SkipEntityRethrow ==
    /\ failedIdx' = failedIdx \cup {entIdx}
    /\ err' = TRUE
    /\ pc' = "det_finally"
    /\ UNCHANGED <<exitCode, faults, entIdx, detailedCreators, renderedPages>>

\* the inner loop moves to the next stub after a failure
SkipEntity ==
    /\ detailedCreators' =
          OnScrapeFailed(detailedCreators, creatorMap[mapIdx].creators[entIdx])
    /\ renderedPages' =
          SubSeq(renderedPages \o <<PageBare>>, 1, Len(detailedCreators'))
    /\ failedIdx' = failedIdx \cup {entIdx}
    /\ entIdx' = entIdx + 1
    /\ pc' = LoopPc(creatorMap, mapIdx, entIdx + 1)
    /\ UNCHANGED <<err, exitCode, faults>>

\* page.goto of the entity page in scrapeCreatorDetails (149)
DetGoto ==
    /\ pc = "det_goto"
    /\ \/ /\ pc' = "det_evaluate"
          /\ UNCHANGED <<err, exitCode, faults, entIdx, detailedCreators, renderedPages, failedIdx>>
       \/ SkipEntity
    /\ UNCHANGED <<creatorMap, mapIdx, written>>
    /\ UNCHANGED <<sessVars, listVars, dirVars, envVars, repVars>>

\* page.evaluate, the merge and the push (151-205, 224-226)
DetEvaluate ==
    /\ pc = "det_evaluate"
    /\ \/ \E page \in pages :
            /\ detailedCreators' =
                  Append(detailedCreators,
                         MergeDetails(creatorMap[mapIdx].creators[entIdx],
                                      EvaluateDetails(page)))
            /\ renderedPages' = Append(renderedPages, page)
            /\ entIdx' = entIdx + 1
            /\ pc' = LoopPc(creatorMap, mapIdx, entIdx + 1)
            /\ UNCHANGED <<err, exitCode, faults, failedIdx>>
       \/ SkipEntity
    /\ UNCHANGED <<creatorMap, mapIdx, written>>
    /\ UNCHANGED <<sessVars, listVars, dirVars, envVars, repVars>>

\* saveCreatorsByCategory of the details, then the next category (233-238)
DetSave ==
    /\ pc = "det_save"
    /\ \E outcome \in {"ok", "mkdir_throws", "write_throws"} :
         CASE outcome = "ok" ->
                /\ detailsDir' = SaveCreatorsByCategory(
                                     detailsDir, creatorMap[mapIdx].category,
                                     detailedCreators)
                /\ written' =
                     LET file == PartitionFile(creatorMap[mapIdx].category)
                         from == [stubs |-> creatorMap[mapIdx].creators,
                                  failed |-> failedIdx,
                                  pages |-> renderedPages]
                     IN [f \in (DOMAIN written) \cup {file} |->
                            IF f = file THEN from ELSE written[f]]
                /\ mapIdx' = mapIdx + 1 /\ entIdx' = 1
                /\ detailedCreators' = <<>> /\ renderedPages' = <<>>
                /\ failedIdx' = {}
                /\ pc' = LoopPc(creatorMap, mapIdx + 1, 1)
                /\ UNCHANGED <<err, exitCode, faults>>
           [] outcome = "mkdir_throws" ->
                /\ DetFatal
                /\ UNCHANGED <<detailsDir, written, mapIdx, entIdx,
                               detailedCreators, renderedPages, failedIdx>>
           [] outcome = "write_throws" ->
                /\ DetFatal
                /\ detailsDir' = [detailsDir EXCEPT !.exists = TRUE]
                /\ UNCHANGED <<written, mapIdx, entIdx,
                               detailedCreators, renderedPages, failedIdx>>
    /\ UNCHANGED <<creatorMap, creatorsDir>>
    /\ UNCHANGED <<sessVars, listVars, envVars, repVars>>

\* a main that goes on to the report whatever the enrichment stage threw
DetFinallyGoOn ==
    /\ pc = "det_finally"
    /\ IF detBrowser # 0
       THEN open' = open \ {detBrowser} /\ closes' = closes + 1
       ELSE UNCHANGED <<open, closes>>
    /\ pc' = "report"
    /\ UNCHANGED <<err, exitCode, faults, mainBrowser, detBrowser, launched>>
    /\ UNCHANGED <<listVars, dirVars, detVars, envVars, repVars>>

\* the finally block of scrapeAllCreatorDetails (242-246), then either the
\* rethrown error reaches main's catch or main goes on to the report (349)
DetFinally ==
    /\ pc = "det_finally"
    /\ IF detBrowser # 0
       THEN open' = open \ {detBrowser} /\ closes' = closes + 1
       ELSE UNCHANGED <<open, closes>>
    /\ pc' = IF err THEN "main_finally" ELSE "report"
    /\ UNCHANGED <<err, exitCode, faults, mainBrowser, detBrowser, launched>>
    /\ UNCHANGED <<listVars, dirVars, detVars, envVars, repVars>>

\* ------------------------------------------------------------------ report
\* a report stage that saves each partition back in the order it printed it
ReportStageSaving(after) ==
    /\ pc = "report"
    /\ \/ /\ detailsDir.exists
          /\ reportFile' =
                [exists |-> TRUE,
                 content |-> ReportContent(ReadAllData(detailsDir, readdirOrder), clock)]
          /\ detailsDir' =
                [detailsDir EXCEPT !.files =
                    [f \in DOMAIN detailsDir.files |-> SortCreators(detailsDir.files[f])]]
          /\ prevReport' = reportFile
          /\ runs' = runs + 1
          /\ UNCHANGED <<err, faults>>
       \/ /\ err' = TRUE
          /\ faults' = faults \cup {pc}
          /\ UNCHANGED <<reportFile, prevReport, runs, detailsDir>>
    /\ pc' = after
    /\ UNCHANGED <<exitCode, creatorsDir>>
    /\ UNCHANGED <<sessVars, listVars, detVars, envVars>>

\* generateReadableReport (249-339): readdir throws when creators-details/
\* is missing or cannot be read; the file is written last; `after` is where
\* the caller goes on
ReportStage(after) ==
    /\ pc = "report"
    /\ \/ /\ detailsDir.exists
          /\ reportFile' =
                [exists |-> TRUE,
                 content |-> ReportContent(ReadAllData(detailsDir, readdirOrder), clock)]
          /\ prevReport' = reportFile
          /\ runs' = runs + 1
          /\ UNCHANGED <<err, faults>>
       \/ /\ err' = TRUE
          /\ faults' = faults \cup {pc}
          /\ UNCHANGED <<reportFile, prevReport, runs>>
    /\ pc' = after
    /\ UNCHANGED exitCode
    /\ UNCHANGED <<sessVars, listVars, dirVars, detVars, envVars>>

\* the report stage as main runs it (349)
GenerateReadableReport == ReportStage("main_finally")

\* the finally block of main, then the process ends: main().catch exits
\* with 1, otherwise the exit status is 0 (358-372)
MainFinally ==
    /\ pc = "main_finally"
    /\ IF mainBrowser # 0
       THEN open' = open \ {mainBrowser} /\ closes' = closes + 1
       ELSE UNCHANGED <<open, closes>>
    /\ pc' = "exited"
    /\ exitCode' = IF err THEN 1 ELSE 0
    /\ UNCHANGED <<err, faults, mainBrowser, detBrowser, launched>>
    /\ UNCHANGED <<listVars, dirVars, detVars, envVars, repVars>>

Next ==
    \/ MainLaunch \/ MainInitPage \/ MainNewPage
    \/ ListGoto \/ ListWaitForSelector \/ ListEvaluate \/ ListSave
    \/ DetRead \/ DetLaunch \/ DetInitPage \/ DetNewPage
    \/ DetGoto \/ DetEvaluate \/ DetSave \/ DetFinally
    \/ GenerateReadableReport
    \/ MainFinally

Spec == Init /\ [][Next]_vars

\* ------------------------------------------- the detail extractor, by page
\* what the <p> next to each label may read
MinutesFields ==
    { NoLabel, LabelOnly, Labelled(<<"1","2","0">>), Labelled(<<"n","/","a">>) }
PriceFields ==
    { NoLabel, Labelled(<<"$","1",".","5","0">>), Labelled(<<"f","r","e","e">>) }
CapFields ==
    { NoLabel, Labelled(<<"$","5","0","0">>),
      Labelled(<<"$","1",",","2","3","4",",","5","6","7">>),
      Labelled(<<"N","/","A">>) }
AllPages ==
    { [minutes |-> m, price |-> p, cap |-> c] :
        m \in MinutesFields, p \in PriceFields, c \in CapFields }

\* creators/ as a listing leaves it when only the last category has entities
ListedDir ==
    LET Stubs(k) == IF k = NumCategories
                    THEN ExtractListing(
                            <<[hasH3 |-> TRUE, h3 |-> <<" ","A","n","n"," ">>,
                               href |-> <<"u","/","a">>],
                              [hasH3 |-> FALSE, h3 |-> <<>>, href |-> <<"u","/","b">>]>>)
                    ELSE <<>>
        RECURSIVE Saved(_)
        Saved(k) == IF k = 0 THEN MissingDir
                    ELSE SaveCreatorsByCategory(Saved(k - 1), categories[k].name, Stubs(k))
    IN Saved(NumCategories)

\* the enrichment stage at its first stub, the site rendering any page
InitDetail ==
    /\ err = FALSE /\ exitCode = -1 /\ faults = {}
    /\ mainBrowser = 1 /\ detBrowser = 2
    /\ launched = 2 /\ open = {1, 2} /\ closes = 0
    /\ catIdx = NumCategories /\ creators = <<>>
    /\ gridFound = 1..NumCategories
    /\ returned = [k \in 1..NumCategories |->
                      ListedDir.files[PartitionFile(categories[k].name)]]
    /\ creatorsDir = ListedDir
    /\ detailsDir = MissingDir
    /\ reportFile = NoReport
    /\ readdirOrder \in ReaddirOrders
    /\ creatorMap = ReadCreatorFiles(creatorsDir, readdirOrder)
    /\ mapIdx = 1 /\ entIdx = 1
    /\ pc = LoopPc(creatorMap, 1, 1)
    /\ detailedCreators = <<>> /\ renderedPages = <<>> /\ failedIdx = {}
    /\ written = NoFiles
    /\ pages = AllPages
    /\ clock = 0
    /\ runs = 0 /\ prevReport = NoReport

NextDetail == DetGoto \/ DetEvaluate \/ DetSave \/ DetFinally

SpecDetail == InitDetail /\ [][NextDetail]_vars

\* ------------------------------------------ the report stage, by partition
\* the market caps a stored detail record may hold: null is what a NaN was
\* written as
CapValues == {Null, Num(10 * Scale), Num(100 * Scale), Num(500 * Scale)}

\* the i-th record discovered in a category, holding market cap c
DetailAt(i, c) ==
    [name |-> <<Upper[i]>>, url |-> <<"u","/",Lower[i]>>,
     minutesPurchased |-> IF c = Null THEN Null ELSE Num(1200 * Scale),
     pricePerMinute |-> Num(150),
     marketCap |-> c]

\* detail partitions of at most MaxRecs records
DetailPartitions ==
    UNION { { [i \in 1..n |-> DetailAt(i, caps[i])] : caps \in [1..n -> CapValues] }
            : n \in 0..MaxRecs }

FoundersFile == PartitionFile(categories[1].name)
DataAnalysisFile == PartitionFile(categories[7].name)

\* creators-details/ as the report stage may find it
ReportDirs ==
    { WriteFile(WriteFile(MissingDir, FoundersFile, p), DataAnalysisFile,
                <<DetailAt(26, Num(100 * Scale))>>) : p \in DetailPartitions }

\* main about to call generateReadableReport, the details as given
InitReport ==
    /\ pc = "report"
    /\ err = FALSE /\ exitCode = -1 /\ faults = {}
    /\ mainBrowser = 1 /\ detBrowser = 2
    /\ launched = 2 /\ open = {1} /\ closes = 1
    /\ catIdx = NumCategories /\ creators = <<>> /\ returned = <<>>
    /\ gridFound = {}
    /\ creatorsDir = MissingDir
    /\ detailsDir \in ReportDirs
    /\ reportFile = NoReport
    /\ readdirOrder \in ReaddirOrders
    /\ creatorMap = <<>> /\ mapIdx = 1 /\ entIdx = 1
    /\ detailedCreators = <<>> /\ renderedPages = <<>> /\ failedIdx = {}
    /\ written = NoFiles
    /\ pages = RunPages
    /\ clock = 0
    /\ runs = 0 /\ prevReport = NoReport

\* the report stage run on its own
ReportOnce == ReportStage("report_done")

\* the stage is run again over the same directory
ReportAgain ==
    /\ pc = "report_done"
    /\ ~err
    /\ runs < MaxRuns
    /\ pc' = "report"
    /\ UNCHANGED <<err, exitCode, faults>>
    /\ UNCHANGED <<sessVars, listVars, dirVars, detVars, envVars, repVars>>

\* time passes between two runs
Tick ==
    /\ pc = "report_done"
    /\ clock < MaxClock
    /\ clock' = clock + 1
    /\ UNCHANGED <<pages, readdirOrder>>
    /\ UNCHANGED <<ctlVars, sessVars, listVars, dirVars, detVars, repVars>>

NextReport == ReportOnce \/ ReportAgain \/ Tick

SpecReport == InitReport /\ [][NextReport]_vars

\* ------------------------------------------------------------- properties
MainPcs == {"main_launch", "main_init_page", "main_new_page"}
ListPcs == {"list_goto", "list_wait", "list_evaluate", "list_save"}

\* the listing loop has run to its end
ListingDone ==
    /\ pc \notin MainPcs \cup ListPcs
    /\ faults \cap (MainPcs \cup ListPcs) = {}

\* the positions 1..n that are not in failed, ascending
KeptIdx(n, failed) == SelectSeq([i \in 1..n |-> i], LAMBDA i : i \notin failed)

\* C1: the run launches one session only, never has two open at a time, and
\* closes it once: no second launch for the enrichment stage.
C1_SessionOnce ==
    /\ launched <= 1
    /\ Cardinality(open) <= 1
    /\ closes <= 1
    /\ (pc = "exited" /\ mainBrowser # 0 => closes = 1)

\* C2: when the process has ended, on any path, every session that was
\* launched has been closed.
C2_ReleasedOnExit == pc = "exited" => open = {}

\* C3: a detail partition written by the run is the stub partition of the
\* same category without the stubs whose extraction failed, in the same
\* order, each remaining stub enriched exactly once.
C3_DetailIsStubsMinusFailed ==
    \A f \in DOMAIN written :
        LET w == written[f]
            d == detailsDir.files[f]
            kept == KeptIdx(Len(w.stubs), w.failed)
        IN /\ f \in DOMAIN creatorsDir.files
           /\ creatorsDir.files[f] = w.stubs
           /\ w.failed \subseteq 1..Len(w.stubs)
           /\ Len(d) = Len(w.stubs) - Cardinality(w.failed)
           /\ \A j \in 1..Len(d) :
                /\ d[j].name = w.stubs[kept[j]].name
                /\ d[j].url = w.stubs[kept[j]].url
                /\ DOMAIN d[j] = StringKeys \cup NumericKeys

\* a category of two stubs, one failed and one enriched, has been written
C3_Witness ==
    \E f \in DOMAIN written :
        /\ written[f].failed # {}
        /\ Len(written[f].stubs) = 2
        /\ Len(detailsDir.files[f]) = 1

\* C4: a timeout of the wait for the grid is absorbed: when it is the only
\* thing that went wrong the run is not failed, and the category it hit has
\* an empty stub partition once the loop has moved past it.
C4_GridTimeoutAbsorbed ==
    faults = {"list_wait"} =>
        /\ ~err
        /\ exitCode # 1
        /\ pc \notin {"main_finally", "exited"} \/ Len(returned) = NumCategories

\* the file of each registry category, and that no two share one
RegistryFiles == [k \in 1..NumCategories |-> PartitionFile(categories[k].name)]
RegistryFilesDistinct ==
    \A j, k \in 1..NumCategories : j # k => RegistryFiles[j] # RegistryFiles[k]

\* C5: once the listing loop has run to its end, every registry category has
\* its own file, holding exactly what the extraction returned for it: same
\* stubs, same order, repeats kept.
C5_StubPartitionExact ==
    /\ RegistryFilesDistinct
    /\ ListingDone =>
          /\ Len(returned) = NumCategories
          /\ \A k \in 1..NumCategories :
                /\ RegistryFiles[k] \in DOMAIN creatorsDir.files
                /\ creatorsDir.files[RegistryFiles[k]] = returned[k]

\* the listing is done and one grid held the same anchor twice
C5_Witness ==
    /\ ListingDone
    /\ \E k \in 1..NumCategories :
          /\ Len(returned[k]) = 2
          /\ returned[k][1] = returned[k][2]
          /\ creatorsDir.files[RegistryFiles[k]] = returned[k]

\* a report without its "Generated on" line
WithoutDate(content) == SelectSeq(content, LAMBDA l : l.label # "Generated on: ")

\* the report stage has run twice, and written the file both times
RanTwice == runs >= 2 /\ reportFile.exists /\ prevReport.exists

\* C6 as stated: two runs of the report stage over the same detail
\* partitions write the same text, byte for byte.
C6_ReportIdempotent == RanTwice => reportFile.content = prevReport.content

\* C6 as amended: two runs of the report stage over the same detail
\* partitions write the same text but for the "Generated on" line, which
\* shows the second each run was made in.
C6_ReportSameButDate ==
    RanTwice =>
        /\ Len(reportFile.content) = Len(prevReport.content)
        /\ WithoutDate(reportFile.content) = WithoutDate(prevReport.content)
        /\ Len(WithoutDate(reportFile.content)) = Len(reportFile.content) - 1

\* two runs a second apart over a directory that holds creators
C6_Witness ==
    /\ RanTwice
    /\ reportFile.content # prevReport.content
    /\ \E f \in DOMAIN detailsDir.files : Len(detailsDir.files[f]) >= 2

\* the text a field of these pages reads when it is not a number
UnparseableTexts == { <<"n","/","a">>, <<"f","r","e","e">>, <<"N","/","A">> }
Unparseable(f) == f.label /\ f.hasText /\ f.text \in UnparseableTexts

\* the record of file f at position j, and the page it was extracted from
RecordOf(f, j) == detailsDir.files[f][j]
PageOf(f, j) == written[f].pages[j]

\* C7: every numeric field of every stored detail record is a number, and a
\* field whose value text does not parse is stored as 0.
C7_UnparseableIsZero ==
    \A f \in DOMAIN written : \A j \in 1..Len(detailsDir.files[f]) :
        /\ \A k \in NumericKeys :
              k \in DOMAIN RecordOf(f, j) /\ RecordOf(f, j)[k].t = "num"
        /\ Unparseable(PageOf(f, j).minutes) => RecordOf(f, j).minutesPurchased = Num(0)
        /\ Unparseable(PageOf(f, j).price) => RecordOf(f, j).pricePerMinute = Num(0)
        /\ Unparseable(PageOf(f, j).cap) => RecordOf(f, j).marketCap = Num(0)

\* C8: every stored detail record has all three numeric fields, and a field
\* whose label the page lacks is stored as 0, whatever the other two labels.
C8_AbsentLabelIsZero ==
    \A f \in DOMAIN written : \A j \in 1..Len(detailsDir.files[f]) :
        /\ NumericKeys \subseteq DOMAIN RecordOf(f, j)
        /\ ~PageOf(f, j).minutes.label => RecordOf(f, j).minutesPurchased = Num(0)
        /\ ~PageOf(f, j).price.label => RecordOf(f, j).pricePerMinute = Num(0)
        /\ ~PageOf(f, j).cap.label => RecordOf(f, j).marketCap = Num(0)

\* a stored record of a page that lacks the price label only
C8_Witness ==
    \E f \in DOMAIN written : \E j \in 1..Len(detailsDir.files[f]) :
        /\ ~PageOf(f, j).price.label
        /\ PageOf(f, j).minutes.label /\ PageOf(f, j).cap.label
        /\ RecordOf(f, j).pricePerMinute = Num(0)
        /\ RecordOf(f, j).marketCap # Num(0)

\* the stubs of the category being enriched that have not failed so far
KeptSoFar == KeptIdx(entIdx - 1, failedIdx)

\* C9: a detail record, as pushed and as stored, has the name and the url of
\* the stub it was made from.
C9_IdentityPreserved ==
    /\ pc \in {"det_goto", "det_evaluate", "det_save"} =>
          /\ Len(detailedCreators) = Len(KeptSoFar)
          /\ \A j \in 1..Len(detailedCreators) :
                LET stub == creatorMap[mapIdx].creators[KeptSoFar[j]]
                IN /\ detailedCreators[j].name = stub.name
                   /\ detailedCreators[j].url = stub.url
    /\ \A f \in DOMAIN written :
          LET kept == KeptIdx(Len(written[f].stubs), written[f].failed)
          IN /\ Len(detailsDir.files[f]) = Len(kept)
             /\ \A j \in 1..Len(kept) :
                   /\ RecordOf(f, j).name = written[f].stubs[kept[j]].name
                   /\ RecordOf(f, j).url = written[f].stubs[kept[j]].url

\* two stubs with different names have been enriched from pages that show
\* all three values, and stored
C9_Witness ==
    \E f \in DOMAIN written :
        /\ Len(detailsDir.files[f]) = 2
        /\ RecordOf(f, 1).name # RecordOf(f, 2).name
        /\ RecordOf(f, 1).marketCap = Num(500 * Scale)
        /\ RecordOf(f, 2).marketCap = Num(500 * Scale)

\* the names and the market caps of the creator blocks, as the report has them
RenderedNames ==
    LET ls == SelectSeq(reportFile.content, LAMBDA l : l.label = "Creator: ")
    IN [i \in 1..Len(ls) |-> ls[i].text]
RenderedCaps ==
    LET ls == SelectSeq(reportFile.content, LAMBDA l : l.label = "Market Cap: $")
    IN [i \in 1..Len(ls) |-> ls[i].text]

\* the market cap a record is ordered by
CapKey(rec) ==
    IF "marketCap" \in DOMAIN rec /\ rec.marketCap.t = "num" THEN rec.marketCap.v ELSE 0

\* the place of record p of partition P in descending market cap order,
\* records of equal market cap in the order of P
Rank(P, p) ==
    1 + Cardinality({q \in 1..Len(P) :
                        \/ CapKey(P[q]) > CapKey(P[p])
                        \/ CapKey(P[q]) = CapKey(P[p]) /\ q < p})

\* the files of creators-details/ in the order the report has their sections
SectionFiles == JsonFiles(Readdir(detailsDir, readdirOrder))

\* C10: in the section of every category the blocks are in descending market
\* cap order, and records of equal market cap are in the order of the detail
\* partition.
C10_DescendingStable ==
    (reportFile.exists /\ runs >= 1) =>
        LET names == RenderedNames
            caps == RenderedCaps
            files == SectionFiles
            parts == [i \in 1..Len(files) |-> detailsDir.files[files[i]]]
        IN /\ Len(names) = TotalLen(parts)
           /\ \A k \in 1..Len(parts) :
                 LET P == parts[k]
                     before == TotalLen(SubSeq(parts, 1, k - 1))
                 IN \A p \in 1..Len(P) :
                       /\ names[before + Rank(P, p)] = P[p].name
                       /\ caps[before + Rank(P, p)] = LocaleOrNA(Get(P[p], "marketCap"))

\* market caps [100, 500, 500, 10] of [A, B, C, D] are rendered [B, C, A, D],
\* ahead of the one record Z of the other category
C10_Witness ==
    /\ reportFile.exists
    /\ readdirOrder = "desc"
    /\ detailsDir.files[FoundersFile] =
          <<DetailAt(1, Num(100 * Scale)), DetailAt(2, Num(500 * Scale)),
            DetailAt(3, Num(500 * Scale)), DetailAt(4, Num(10 * Scale))>>
    /\ RenderedNames = << <<"B">>, <<"C">>, <<"A">>, <<"D">>, <<"Z">> >>

\* the computed part of the lines of the report that have the given label
TextsOf(label) ==
    LET ls == SelectSeq(reportFile.content, LAMBDA l : l.label = label)
    IN [i \in 1..Len(ls) |-> ls[i].text]

\* the records, and the market cap, of the files fs of creators-details/
RECURSIVE RecordsIn(_)
RecordsIn(fs) ==
    IF fs = {} THEN 0
    ELSE LET f == CHOOSE g \in fs : TRUE
         IN Len(detailsDir.files[f]) + RecordsIn(fs \ {f})

RECURSIVE CapOfRecords(_)
CapOfRecords(recs) ==
    IF recs = <<>> THEN 0 ELSE CapKey(Head(recs)) + CapOfRecords(Tail(recs))

RECURSIVE CapIn(_)
CapIn(fs) ==
    IF fs = {} THEN 0
    ELSE LET f == CHOOSE g \in fs : TRUE
         IN CapOfRecords(detailsDir.files[f]) + CapIn(fs \ {f})

\* the report has the header of the category stored in file f
HasHeader(f) ==
    \E i \in 1..(Len(reportFile.content) - 1) :
        /\ reportFile.content[i] = Line("", ReportCategory(f))
        /\ reportFile.content[i + 1] =
              Line("=", RepeatChar("=", Len(ReportCategory(f))))

\* the categories whose grid was there and held no anchor
EmptyGrids == {k \in gridFound : k <= Len(returned) /\ returned[k] = <<>>}

\* C11: a category whose grid is there but empty has the stub partition [],
\* the detail partition [], its header in the report, and leaves both totals
\* of the report what the other categories make them.
C11_EmptyCategory ==
    \A k \in EmptyGrids :
        LET f == RegistryFiles[k]
            others == (DOMAIN detailsDir.files) \ {f}
        IN /\ (catIdx > k \/ ListingDone) =>
                 f \in DOMAIN creatorsDir.files /\ creatorsDir.files[f] = <<>>
           /\ f \in DOMAIN written => detailsDir.files[f] = <<>>
           /\ runs >= 1 =>
                 /\ f \in DOMAIN written
                 /\ HasHeader(f)
                 /\ TextsOf("Total Creators: ")[1] = IntToStr(RecordsIn(others))
                 /\ TextsOf("Total Market Cap: $")[1] = ToLocaleString(CapIn(others))

\* the report of a run in which one populated category had an empty grid and
\* the other had two creators
C11_Witness ==
    /\ runs >= 1
    /\ NumCategories \in EmptyGrids
    /\ HasHeader(RegistryFiles[NumCategories])
    /\ TextsOf("Total Creators: ")[1] = <<"2">>
    /\ Len(detailsDir.files[RegistryFiles[NumCategories - 1]]) = 2

\* C12: when creators/ cannot be read as enrichment begins, the run has
\* failed: the error reaches the top level, no detail partition and no report
\* is written, and the process ends with a status that is not zero.
C12_MissingDirIsFatal ==
    "det_read" \in faults =>
        /\ err
        /\ pc \in {"det_finally", "main_finally", "exited"}
        /\ written = NoFiles
        /\ detailsDir = MissingDir
        /\ runs = 0 /\ reportFile = NoReport
        /\ (pc = "exited" => exitCode = 1)

\* the process has ended after readdir of creators/ threw
C12_Witness == "det_read" \in faults /\ pc = "exited" /\ exitCode = 1

\* C13: a run whose only failures are failures of single entities does not
\* fail: every detail partition is written, the report is written and the
\* exit status is 0; the exit status is 1 exactly when the run failed.
C13_EntityFailuresNotFatal ==
    /\ err <=> faults # {}
    /\ pc = "exited" =>
          /\ exitCode = (IF err THEN 1 ELSE 0)
          /\ faults = {} =>
                /\ \A k \in 1..NumCategories :
                      /\ RegistryFiles[k] \in DOMAIN written
                      /\ RegistryFiles[k] \in DOMAIN detailsDir.files
                /\ runs = 1 /\ reportFile.exists

\* the process has ended with status 0 after two entities of one category
\* failed
C13_Witness ==
    /\ pc = "exited" /\ exitCode = 0 /\ runs = 1
    /\ \E f \in DOMAIN written :
          Cardinality(written[f].failed) = 2 /\ detailsDir.files[f] = <<>>

\* the positions of the run after a fatal error: the finally blocks and the end
FailedPcs == {"det_finally", "main_finally", "exited"}

\* C14: the stages run in the order listing, enrichment, report: no entity
\* page is opened before every registry category has its stub partition on
\* disk, the report is not written before every loaded category has its
\* detail partition on disk, and after a fatal error the run only unwinds:
\* no navigation and no write by a later stage.
C14_StagesInOrder ==
    /\ [](/\ pc \in {"det_goto", "det_evaluate", "det_save"} =>
               \A k \in 1..NumCategories :
                   RegistryFiles[k] \in DOMAIN creatorsDir.files
          /\ runs >= 1 =>
               /\ Len(creatorMap) = NumCategories
               /\ \A m \in 1..Len(creatorMap) :
                     PartitionFile(creatorMap[m].category)
                         \in DOMAIN written \cap DOMAIN detailsDir.files)
    /\ [][err => /\ err'
                 /\ pc' \in FailedPcs
                 /\ creatorsDir' = creatorsDir
                 /\ detailsDir' = detailsDir
                 /\ reportFile' = reportFile /\ runs' = runs]_vars

\* the process has ended after the enrichment stage failed on saving the
\* second category it came to: the first is on disk, the report is not
C14_Witness ==
    /\ pc = "exited" /\ err
    /\ "det_save" \in faults
    /\ Cardinality(DOMAIN detailsDir.files) = 1
    /\ runs = 0 /\ ~reportFile.exists

\* C15: while category k is being listed, and after the run failed listing
\* it, creators/ holds the stub partitions of categories 1..k-1 of the
\* registry, each as its grid returned it, and none of category k or later.
C15_SavedBeforeNext ==
    (pc \in ListPcs \/ faults \cap ListPcs # {}) =>
        /\ DOMAIN creatorsDir.files = {RegistryFiles[j] : j \in 1..(catIdx - 1)}
        /\ \A j \in 1..(catIdx - 1) :
              creatorsDir.files[RegistryFiles[j]] = returned[j]

\* the process has ended after the wait for the grid of the last category
\* timed out; the category before it had returned two stubs
C15_Witness ==
    /\ pc = "exited" /\ "list_wait" \in faults
    /\ catIdx = NumCategories
    /\ Len(returned[NumCategories - 1]) = 2
    /\ Cardinality(DOMAIN creatorsDir.files) = NumCategories - 1

\* C16: the first summary of the report gives the number of records of all
\* detail partitions and the sum of their market caps, a missing one counted
\* as 0, and gives the same in whichever order the partitions are read.
C16_LeadingTotals ==
    reportFile.exists =>
        LET all == DOMAIN detailsDir.files
        IN /\ TextsOf("Total Creators: ")[1] = IntToStr(RecordsIn(all))
           /\ TextsOf("Total Market Cap: $")[1] = ToLocaleString(CapIn(all))
           /\ \A order \in ReaddirOrders :
                 LET first == FirstPass(ReadAllData(detailsDir, order))
                 IN SubSeq(reportFile.content, 4, 7) = SummaryBlock(first[1], first[2])

\* a report over partitions read in descending order, three of the four
\* records with a market cap and one without
C16_Witness ==
    /\ reportFile.exists /\ readdirOrder = "desc"
    /\ Len(detailsDir.files[FoundersFile]) = 3
    /\ \E j \in 1..3 : detailsDir.files[FoundersFile][j].marketCap = Null
    /\ TextsOf("Total Creators: ")[1] = <<"4">>
    /\ TextsOf("Total Market Cap: $")[1] = <<"6","1","0">>

\* C17: the last summary of the report gives twice the number of records and
\* twice the sum of market caps that the first summary gives.
C17_TrailingTotalsDoubled ==
    reportFile.exists =>
        LET all == DOMAIN detailsDir.files
            count == TextsOf("Total Creators: ")
            cap == TextsOf("Total Market Cap: $")
        IN /\ Len(count) = 2 /\ Len(cap) = 2
           /\ count[1] = IntToStr(RecordsIn(all))
           /\ count[2] = IntToStr(2 * RecordsIn(all))
           /\ cap[1] = ToLocaleString(CapIn(all))
           /\ cap[2] = ToLocaleString(2 * CapIn(all))

\* a report over three records: the first summary says 3 and 700, the last
\* says 6 and 1,400
C17_Witness ==
    /\ reportFile.exists
    /\ TextsOf("Total Creators: ") = << <<"3">>, <<"6">> >>
    /\ TextsOf("Total Market Cap: $") = << <<"7","0","0">>, <<"1",",","4","0","0">> >>

\* text reads "$d,ddd,...,ddd": a currency sign, then digits in groups of
\* three set apart by commas
IsGrouped(text) ==
    /\ Len(text) >= 2 /\ text[1] = "$"
    /\ (Len(text) - 1) % 4 # 0
    /\ \A i \in 2..Len(text) :
          IF (Len(text) - i + 1) % 4 = 0 THEN text[i] = "," ELSE IsDigit(text[i])

\* the number a grouped text writes: all its digits
FullNumber(text) == DigitsValue(SelectSeq(text, IsDigit), 0)

\* C18: a market cap text of the form "$d,ddd,...,ddd" is stored as the whole
\* number it writes, whatever the number of comma groups.
C18_AllSeparatorsStripped ==
    \A f \in DOMAIN written : \A j \in 1..Len(detailsDir.files[f]) :
        (PageOf(f, j).cap.label /\ IsGrouped(PageOf(f, j).cap.text)) =>
            RecordOf(f, j).marketCap = Num(FullNumber(PageOf(f, j).cap.text) * Scale)

\* C19: the report stage writes the report and nothing else: creators/ and
\* creators-details/ hold after it what they held before it, every partition
\* with its records in the same order.
C19_ReportLeavesPartitions ==
    [][pc = "report" => creatorsDir' = creatorsDir /\ detailsDir' = detailsDir]_vars

\* the report of a run lists the two creators of a category by descending
\* market cap, and the partition on disk still has them the other way round
C19_Witness ==
    /\ runs = 1 /\ reportFile.exists
    /\ \E f \in DOMAIN detailsDir.files :
          LET d == detailsDir.files[f]
          IN /\ Len(d) = 2 /\ CapKey(d[1]) < CapKey(d[2])
             /\ TextsOf("Creator: ") = <<d[2].name, d[1].name>>
             /\ Len(creatorsDir.files[f]) = 2

\* a slug as title-cased words: hyphens become spaces, the first letter of
\* every word is a capital
TitleWords(slug) ==
    [i \in 1..Len(slug) |->
        IF slug[i] = "-" THEN " "
        ELSE IF i = 1 \/ slug[i - 1] = "-" THEN UpperChar(slug[i])
        ELSE slug[i]]

\* a slug is lowercase and has no whitespace
IsSlug(s) == \A i \in 1..Len(s) : ~IsUpper(s[i]) /\ ~IsSpace(s[i])

\* the slug of each registry category
RegistrySlugs == [k \in 1..NumCategories |-> CategoryOfFile(RegistryFiles[k])]

\* C20: every registry category is stored under its lowercase hyphenated
\* slug, the detail partition under the same slug as the stub partition, and
\* the header the report prints for it is the slug as title-cased words.
C20_SlugRetitled ==
    /\ \A k \in 1..NumCategories :
          /\ IsSlug(RegistrySlugs[k])
          /\ PartitionFile(RegistrySlugs[k]) = RegistryFiles[k]
    /\ runs >= 1 =>
          \A k \in 1..NumCategories :
              /\ RegistryFiles[k] \in DOMAIN creatorsDir.files
              /\ RegistryFiles[k] \in DOMAIN detailsDir.files
              /\ \E i \in 1..Len(reportFile.content) :
                    reportFile.content[i] = Line("", TitleWords(RegistrySlugs[k]))

====
